---- MODULE Spec2Model ----
(***************************************************************************)
(* A model of src/src/HttpMessage.ts: the HttpMessage value object (its    *)
(* constructor and toString), the fromRequest / fromResponse factories and *)
(* the body extractors over fetch bodies, readable and writable streams.   *)
(*                                                                         *)
(* Text is a sequence of UTF-16 code units (integers): "OK" is <<79, 75>>. *)
(* A value of type `string | undefined` is such a sequence, or Undefined.  *)
(* Binary data (a Buffer) is a sequence of bytes 0..255.                   *)
(***************************************************************************)
EXTENDS Integers, Sequences, FiniteSets

\* ------------------------------------------------------------------ bounds
\* Longest body text handed to the constructor or carried by a fetch source.
MaxBodyLen == 2
\* Most entries of a header mapping.
MaxHeaders == 2

\* ------------------------------------------------------------------ text
\* The JavaScript value `undefined` where a string may stand (no code unit
\* is negative, so no text equals it).
Undefined == <<-1>>

\* "\r\n"
CRLF == <<13, 10>>

\* "HTTP/1.0"
httpVersion == <<72, 84, 84, 80, 47, 49, 46, 48>>

\* What a template literal `${x}` renders for a value x: string | undefined.
Template(x) == IF x = Undefined THEN <<117, 110, 100, 101, 102, 105, 110, 101, 100>> ELSE x

\* `${n}` for a non-negative integer n: its decimal digits.
RECURSIVE ToDecimal(_)
ToDecimal(n) == IF n < 10 THEN <<48 + n>> ELSE ToDecimal(n \div 10) \o <<48 + (n % 10)>>

\* Array.prototype.join(sep) over an array of strings.
RECURSIVE Join(_, _)
Join(arr, sep) ==
  IF Len(arr) = 0 THEN <<>>
  ELSE IF Len(arr) = 1 THEN arr[1]
  ELSE arr[1] \o sep \o Join(Tail(arr), sep)

\* The number of bytes of the UTF-8 encoding of one code unit (no surrogates
\* occur in the texts of this model).
Utf8Width(c) == IF c < 128 THEN 1 ELSE IF c < 2048 THEN 2 ELSE 3

\* Buffer.from(text).byteLength, the default (utf8) encoding.
RECURSIVE Utf8ByteLength(_)
Utf8ByteLength(text) ==
  IF Len(text) = 0 THEN 0 ELSE Utf8Width(Head(text)) + Utf8ByteLength(Tail(text))

IsHexDigit(c) == (c \in 48..57) \/ (c \in 65..70) \/ (c \in 97..102)

\* Buffer.from(text, 'hex').byteLength: one byte per leading pair of hex
\* digits, decoding stops at the first pair that is not two hex digits.
RECURSIVE HexByteLength(_)
HexByteLength(text) ==
  IF Len(text) >= 2 /\ IsHexDigit(text[1]) /\ IsHexDigit(text[2])
  THEN 1 + HexByteLength(SubSeq(text, 3, Len(text)))
  ELSE 0

\* ASCII lower-casing, as the fetch Headers class matches header names.
LowerUnit(c) == IF c \in 65..90 THEN c + 32 ELSE c
Lower(text) == [k \in 1..Len(text) |-> LowerUnit(text[k])]

\* "hex", the one Buffer encoding besides utf8 that this model knows; any
\* other Content-Encoding value (such as "gzip") is no BufferEncoding.
HexEncoding == <<104, 101, 120>>
KnownEncoding(enc) == enc \in {Undefined, HexEncoding}

\* Buffer.from(body, encoding).byteLength for a known encoding.
ByteLength(text, enc) == IF enc = HexEncoding THEN HexByteLength(text) ELSE Utf8ByteLength(text)

\* Buffer.prototype.toString('utf8') and Body.text(): UTF-8 decoding of bytes
\* below 0xE0 (the bytes of this model). A lead byte 0xC2..0xDF followed by a
\* continuation byte 0x80..0xBF is one code unit; a byte that fits nowhere
\* decodes to U+FFFD and decoding goes on at the next byte.
RECURSIVE Utf8Decode(_)
Utf8Decode(bytes) ==
  IF Len(bytes) = 0 THEN <<>>
  ELSE IF bytes[1] < 128 THEN <<bytes[1]>> \o Utf8Decode(Tail(bytes))
  ELSE IF bytes[1] \in 194..223 /\ Len(bytes) >= 2 /\ bytes[2] \in 128..191
       THEN <<(bytes[1] - 192) * 64 + (bytes[2] - 128)>> \o Utf8Decode(SubSeq(bytes, 3, Len(bytes)))
  ELSE <<65533>> \o Utf8Decode(Tail(bytes))

\* Buffer.concat(chunks)
RECURSIVE BufferConcat(_)
BufferConcat(chunks) ==
  IF Len(chunks) = 0 THEN <<>> ELSE Head(chunks) \o BufferConcat(Tail(chunks))

\* node:http STATUS_CODES[status]: "OK", "Created", "Not Modified", "Not Found";
\* Undefined for a code the table does not list.
StatusCodes(status) ==
  CASE status = 200 -> <<79, 75>>
    [] status = 201 -> <<67, 114, 101, 97, 116, 101, 100>>
    [] status = 304 -> <<78, 111, 116, 32, 77, 111, 100, 105, 102, 105, 101, 100>>
    [] status = 404 -> <<78, 111, 116, 32, 70, 111, 117, 110, 100>>
    [] OTHER -> Undefined

\* ------------------------------------------------------------------ headers
\* "content-type" and "content-encoding", the names the constructor looks up;
\* "Content-Encoding" and "x-custom-header", further names of the inputs.
ContentType == <<99, 111, 110, 116, 101, 110, 116, 45, 116, 121, 112, 101>>
ContentEncoding == <<99, 111, 110, 116, 101, 110, 116, 45, 101, 110, 99, 111, 100, 105, 110, 103>>
ContentEncodingCased == <<67, 111, 110, 116, 101, 110, 116, 45, 69, 110, 99, 111, 100, 105, 110, 103>>
XCustomHeader == <<120, 45, 99, 117, 115, 116, 111, 109, 45, 104, 101, 97, 100, 101, 114>>

\* RawHeaders (Record<string, string>) is the sequence of its entries
\* <<name, value>> in insertion order, names distinct.

\* new Headers(rawHeaders).get(name): the values of the entries whose name
\* matches case-insensitively, joined with ", "; Undefined (null) when none.
RECURSIVE MatchingValues(_, _)
MatchingValues(rawHeaders, name) ==
  IF Len(rawHeaders) = 0 THEN <<>>
  ELSE (IF Lower(Head(rawHeaders)[1]) = Lower(name) THEN <<Head(rawHeaders)[2]>> ELSE <<>>)
       \o MatchingValues(Tail(rawHeaders), name)

HeadersGet(rawHeaders, name) ==
  LET vs == MatchingValues(rawHeaders, name)
  IN IF Len(vs) = 0 THEN Undefined ELSE Join(vs, <<44, 32>>)

\* x || fallback for a string-or-null x: the empty string is falsy.
OrElse(x, fallback) == IF x = Undefined \/ x = <<>> THEN fallback ELSE x

\* toHeaderLines: one "name: value" line per entry, in order.
toHeaderLines(rawHeaders) ==
  [k \in 1..Len(rawHeaders) |-> rawHeaders[k][1] \o <<58, 32>> \o rawHeaders[k][2]]

\* ------------------------------------------------------------------ message
\* The constructor's header block: this.headers.
HeaderBlock(headerLines, bodySize) ==
  IF Len(headerLines) = 0
  THEN <<>>
  ELSE Join(headerLines, CRLF) \o CRLF \o (IF bodySize > 0 THEN CRLF ELSE <<>>)

\* A plausible slip: the header size counted in code units, not bytes.
HeadersSizeInUnits(startLine, headers) == Len(startLine \o CRLF \o headers)

\* this.headersSize = Buffer.from(startLine + '\r\n' + headers).byteLength
HeadersSize(startLine, headers) == Utf8ByteLength(startLine \o CRLF \o headers)

\* Whether `new HttpMessage(...)` throws: Buffer.from(body, encoding) rejects
\* an encoding it does not know (the body is only encoded when it is given).
ConstructorThrows(rawHeaders, body) ==
  /\ body # Undefined
  /\ ~KnownEncoding(OrElse(HeadersGet(rawHeaders, ContentEncoding), Undefined))

\* new HttpMessage(startLine, rawHeaders, body), when it does not throw.
NewHttpMessage(startLine, rawHeaders, body) ==
  LET encoding == OrElse(HeadersGet(rawHeaders, ContentEncoding), Undefined)
      mimeType == OrElse(HeadersGet(rawHeaders, ContentType), <<>>)
      bodySize == IF body = Undefined THEN 0 ELSE ByteLength(body, encoding)
      headers  == HeaderBlock(toHeaderLines(rawHeaders), bodySize)
  IN [constructed |-> TRUE,
      startLine   |-> startLine,
      rawHeaders  |-> rawHeaders,
      body        |-> body,
      encoding    |-> encoding,
      mimeType    |-> mimeType,
      bodySize    |-> bodySize,
      headers     |-> headers,
      headersSize |-> HeadersSize(startLine, headers)]

\* get totalSize()
totalSize(m) == m.headersSize + m.bodySize

\* A plausible slip: the header section is closed whenever no body follows,
\* also when there are no headers at all.
toStringAlwaysCloses(m) ==
  m.startLine \o CRLF \o m.headers \o (IF m.body # Undefined THEN m.body ELSE CRLF)

\* toString()
toString(m) ==
  LET message    == m.startLine \o CRLF
      rawHeaders == m.headers
      hasBody    == m.body # Undefined
  IN IF hasBody
     THEN (message \o rawHeaders) \o m.body
     ELSE IF Len(rawHeaders) > 0
          THEN (message \o rawHeaders) \o CRLF
          ELSE message \o rawHeaders

\* ------------------------------------------------------------------ state
\* Conversion calls that may share the one stream of a streaming source.
Attempts == 2
Calls == 1..Attempts
\* Most chunks pushed into the readable stream, or written to the writable.
MaxChunks == 2

VARIABLES
  call,      \* per call: which factory ran, on what source, and how it ended
  msg,       \* per call: the HttpMessage it constructed, if any
  out,       \* per call: what toString() of that message returned, if called
  stream,    \* the http.IncomingMessage (a Readable) shared by the calls
  ext,       \* per call: the body extraction's DeferredPromise and chunks
  emitted,   \* every chunk the readable stream emitted as 'data', in order
  writable,  \* the http.ClientRequest (a Writable) shared by the calls
  written    \* every chunk handed to write()/end() of the writable, in order

vars == <<call, msg, out, stream, ext, emitted, writable, written>>
streamVars == <<stream, ext, emitted, writable, written>>

NoMsg == [constructed |-> FALSE]
NotCalled == <<-2>>

Err(name, detail, got) == [name |-> name, detail |-> detail, got |-> got]
NoError == Err("none", "", "")

\* A source value handed to a factory. cls is what `instanceof` tells, ctor is
\* source.constructor?.name ("" when there is none), typeof is `typeof source`.
Source(cls, ctor, nullish, typeof, method, status, statusText, headers, body) ==
  [cls |-> cls, ctor |-> ctor, nullish |-> nullish, typeof |-> typeof,
   method |-> method, status |-> status, statusText |-> statusText,
   headers |-> headers, body |-> body]

NoSource == Source("none", "", TRUE, "undefined", <<>>, 0, <<>>, <<>>, Undefined)

\* A call of a factory (or of the constructor): its source, the start line
\* and headers it derived before awaiting the body, and how it ended.
Call(op, status, src, startLine, rawHeaders, error) ==
  [op |-> op, status |-> status, src |-> src, startLine |-> startLine,
   rawHeaders |-> rawHeaders, error |-> error]

IdleCall == Call("none", "idle", NoSource, <<>>, <<>>, NoError)

\* ------------------------------------------------------------------ inputs
Texts(n) == UNION {[1..k -> {97, 122, 233}] : k \in 0..n}
Bodies == {Undefined} \cup Texts(MaxBodyLen)

\* "text/plain", "gzip", "Valué"
TextPlain == <<116, 101, 120, 116, 47, 112, 108, 97, 105, 110>>
Gzip == <<103, 122, 105, 112>>
Value == <<86, 97, 108, 117, 233>>

HeaderEntries ==
  { <<ContentType, TextPlain>>,
    <<ContentEncodingCased, HexEncoding>>,
    <<ContentEncoding, Gzip>>,
    <<ContentEncoding, HexEncoding>>,
    <<XCustomHeader, Value>> }

\* The header mappings: up to MaxHeaders entries, names distinct (object keys).
HeaderLists ==
  UNION { {h \in [1..k -> HeaderEntries] : \A a, b \in 1..k : a # b => h[a][1] # h[b][1]}
          : k \in 0..MaxHeaders }

\* "GET https://example.com/ HTTP/1.0" | "HTTP/1.0 200 OK" | "HTTP/1.0 200 é"
StartLines ==
  { <<71, 69, 84, 32, 104, 116, 116, 112, 115, 58, 47, 47, 101, 120, 97, 109, 112, 108, 101, 46, 99, 111, 109, 47, 32>> \o httpVersion,
    httpVersion \o <<32, 50, 48, 48, 32, 79, 75>>,
    httpVersion \o <<32, 50, 48, 48, 32, 233>> }

\* What Headers.entries() of a fetch source yields: lower-case names in
\* ascending order.
RECURSIVE TextLess(_, _)
TextLess(a, b) ==
  IF Len(b) = 0 THEN FALSE
  ELSE IF Len(a) = 0 THEN TRUE
  ELSE IF a[1] # b[1] THEN a[1] < b[1]
  ELSE TextLess(Tail(a), Tail(b))

FetchHeaderLists ==
  {h \in HeaderLists :
     /\ \A k \in 1..Len(h) : Lower(h[k][1]) = h[k][1]
     /\ \A k \in 1..(Len(h) - 1) : TextLess(h[k][1], h[k + 1][1])}

\* The payload of a fetch body: bytes 'a', 0xC3, 0xA9 (0xC3 0xA9 is "é").
Payloads == UNION {[1..k -> {97, 195, 169}] : k \in 0..MaxBodyLen}

\* "GET", "POST"
GetMethod == <<71, 69, 84>>
PostMethod == <<80, 79, 83, 84>>
\* "https://example.com/"
ExampleUrl == <<104, 116, 116, 112, 115, 58, 47, 47, 101, 120, 97, 109, 112, 108, 101, 46, 99, 111, 109, 47>>
\* "Custom"
CustomText == <<67, 117, 115, 116, 111, 109>>

\* Fetch API Request instances; body is the payload, or Undefined for a null
\* body (a GET request carries none). statusText holds the url.
RequestSources ==
  { s \in { Source("Request", "Request", FALSE, "object", method, 0, ExampleUrl, headers, body) :
              method \in {GetMethod, PostMethod}, headers \in FetchHeaderLists,
              body \in {Undefined} \cup Payloads } :
      s.method = GetMethod => s.body = Undefined }

\* Fetch API Response instances; statusText "" or "Custom"; a 304 has no body.
ResponseSources ==
  { s \in { Source("Response", "Response", FALSE, "object", <<>>, status, statusText, headers, body) :
              status \in {200, 201, 299, 304}, statusText \in {<<>>, CustomText},
              headers \in FetchHeaderLists, body \in {Undefined} \cup Payloads } :
      s.status = 304 => s.body = Undefined }

\* Values of no recognized shape: null, undefined, a plain object, an object
\* without a constructor (Object.create(null)), a string.
ForeignSources ==
  { Source("null", "", TRUE, "object", <<>>, 0, <<>>, <<>>, Undefined),
    Source("undefined", "", TRUE, "undefined", <<>>, 0, <<>>, <<>>, Undefined),
    Source("Object", "Object", FALSE, "object", <<>>, 0, <<>>, <<>>, Undefined),
    Source("NullPrototype", "", FALSE, "object", <<>>, 0, <<>>, <<>>, Undefined),
    Source("String", "String", FALSE, "string", <<>>, 0, <<>>, <<>>, Undefined) }

\* One instance of each recognized shape, to hand to the factory of the other side.
ShapedSources ==
  { Source("Request", "Request", FALSE, "object", GetMethod, 0, ExampleUrl, <<>>, Undefined),
    Source("Response", "Response", FALSE, "object", <<>>, 200, <<>>, <<>>, Undefined),
    Source("ClientRequest", "ClientRequest", FALSE, "object", GetMethod, 0, <<>>, <<>>, Undefined),
    Source("IncomingMessage", "IncomingMessage", FALSE, "object", <<>>, 200, <<>>, <<>>, Undefined) }

\* A header mapping of node:http: entries <<name, kind, items>>, the value
\* being a string (kind "string", one item), an array of strings ("array")
\* or undefined ("undefined", no item).
MixedCaseHeaders ==
  << <<<<67, 111, 110, 116, 101, 110, 84, 45, 84, 121, 112, 69>>, "string", <<TextPlain>>>> >>
ArrayHeaders ==
  << <<XCustomHeader, "array", <<Value, TextPlain>>>>, <<ContentType, "undefined", <<>>>> >>

\* A fresh http.IncomingMessage: nothing pushed, nothing read, no listener.
\* statusCode 0 stands for an unset status code; "1.1" is <<49, 46, 49>>.
IncomingMessage(statusCode, statusMessage, version, headers) ==
  [statusCode |-> statusCode, statusMessage |-> statusMessage, httpVersion |-> version,
   headers |-> headers,
   buffer |-> <<>>, ended |-> FALSE, flowing |-> FALSE, endEmitted |-> FALSE,
   errored |-> FALSE, error |-> NoError, destroyed |-> FALSE, listeners |-> {}]

IncomingMessages ==
  { IncomingMessage(0, Undefined, Undefined, MixedCaseHeaders),
    IncomingMessage(404, CustomText, <<49, 46, 49>>, ArrayHeaders) }

\* The chunks a stream carries: "a" with the first byte of "é", and the
\* second byte of "é".
Chunks == {<<97, 195>>, <<169>>}
\* The errors a stream may signal.
StreamErrors == {Err("Error", "ECONNRESET", ""), Err("Error", "EPIPE", "")}

\* ------------------------------------------------------------------ init
\* The extraction of a call that has not reached its body yet.
IdleExt == [state |-> "none", chunks |-> <<>>, value |-> Undefined, reason |-> NoError, from |-> 0]

\* A fresh http.ClientRequest; hooked is the call whose extraction installed
\* the current _write, 0 while the request has its own.
ClientRequest(method, headers) ==
  [method |-> method, headers |-> headers,
   pending |-> <<>>, ending |-> FALSE, finished |-> FALSE, errored |-> FALSE,
   hooked |-> 0, listeners |-> {}]

InitCalls ==
  /\ call = [i \in Calls |-> IdleCall]
  /\ msg = [i \in Calls |-> NoMsg]
  /\ out = [i \in Calls |-> NotCalled]
  /\ ext = [i \in Calls |-> IdleExt]
  /\ emitted = <<>>
  /\ written = <<>>

Init ==
  /\ InitCalls
  /\ stream = IncomingMessage(0, Undefined, Undefined, <<>>)
  /\ writable = ClientRequest(GetMethod, <<>>)

\* ------------------------------------------------------------------ actions
\* The tail every factory shares with a direct construction:
\* `return new HttpMessage(startLine, headers, body)`, or the constructor's throw.
Construct(i, op, src, startLine, rawHeaders, body) ==
  IF ConstructorThrows(rawHeaders, body)
  THEN /\ call' = [call EXCEPT ![i] = Call(op, "thrown", src, startLine, rawHeaders,
                                           Err("TypeError", "ERR_UNKNOWN_ENCODING", ""))]
       /\ msg' = msg
  ELSE /\ call' = [call EXCEPT ![i] = Call(op, "returned", src, startLine, rawHeaders, NoError)]
       /\ msg' = [msg EXCEPT ![i] = NewHttpMessage(startLine, rawHeaders, body)]

\* new HttpMessage(startLine, rawHeaders, body), called directly.
New(i) ==
  /\ call[i].status = "idle"
  /\ \E startLine \in StartLines, rawHeaders \in HeaderLists, body \in Bodies :
       Construct(i, "new", NoSource, startLine, rawHeaders, body)
  /\ UNCHANGED <<out, streamVars>>

\* extractFetchBody: undefined for a null body, else instance.text().
extractFetchBody(src) == IF src.body = Undefined THEN Undefined ELSE Utf8Decode(src.body)

\* A plausible slip: the constructor name is read without the null check's
\* typeof branch.
ConstructorNameOnly(src) == IF src.ctor = "" THEN "undefined" ELSE src.ctor

\* The type name the factories' final invariant() reports.
RuntimeTypeName(src) ==
  IF ~src.nullish THEN (IF src.ctor = "" THEN "undefined" ELSE src.ctor) ELSE src.typeof

\* The start line of fromRequest(Request).
RequestStartLine(method, url) == method \o <<32>> \o url \o <<32>> \o httpVersion

\* The start line of fromResponse(Response).
ResponseStartLine(status, givenText) ==
  LET statusText == OrElse(givenText, StatusCodes(status))
  IN httpVersion \o <<32>> \o ToDecimal(status) \o <<32>> \o Template(statusText)

\* fromRequest(request), request instanceof Request.
FromRequestFetch(i) ==
  /\ call[i].status = "idle"
  /\ \E src \in RequestSources :
       /\ src.cls = "Request"
       /\ Construct(i, "fromRequest", src, RequestStartLine(src.method, src.statusText),
                    src.headers, extractFetchBody(src))
  /\ UNCHANGED <<out, streamVars>>

\* fromRequest(request), request neither a Request nor a ClientRequest: the
\* final invariant(false, ...) throws.
FromRequestUnsupported(i) ==
  /\ call[i].status = "idle"
  /\ \E src \in ForeignSources \cup ShapedSources :
       /\ src.cls # "Request"
       /\ src.cls # "ClientRequest"
       /\ call' = [call EXCEPT ![i] = Call("fromRequest", "thrown", src, <<>>, <<>>,
              Err("InvariantError", "Failed to create HTTP message from request", RuntimeTypeName(src)))]
  /\ UNCHANGED <<msg, out, streamVars>>

\* fromResponse(response), response instanceof Response.
FromResponseFetch(i) ==
  /\ call[i].status = "idle"
  /\ \E src \in ResponseSources :
       /\ src.cls = "Response"
       /\ Construct(i, "fromResponse", src, ResponseStartLine(src.status, src.statusText),
                    src.headers, extractFetchBody(src))
  /\ UNCHANGED <<out, streamVars>>

\* fromResponse(response), response neither a Response nor an IncomingMessage:
\* the final invariant(false, ...) throws.
FromResponseUnsupported(i) ==
  /\ call[i].status = "idle"
  /\ \E src \in ForeignSources \cup ShapedSources :
       /\ src.cls # "Response"
       /\ src.cls # "IncomingMessage"
       /\ call' = [call EXCEPT ![i] = Call("fromResponse", "thrown", src, <<>>, <<>>,
              Err("InvariantError", "Failed to create HTTP message from response", RuntimeTypeName(src)))]
  /\ UNCHANGED <<msg, out, streamVars>>

\* message.toString()
ToString(i) ==
  /\ msg[i].constructed
  /\ out[i] = NotCalled
  /\ out' = [out EXCEPT ![i] = toString(msg[i])]
  /\ UNCHANGED <<call, msg, streamVars>>

Next ==
  \/ New(1)
  \/ FromRequestFetch(1)
  \/ FromRequestUnsupported(1)
  \/ FromResponseFetch(1)
  \/ FromResponseUnsupported(1)
  \/ ToString(1)

Spec == Init /\ [][Next]_vars

\* ------------------------------------------------------------------ readable
\* headersFromIncomingHttpHeaders: undefined values are skipped, arrays are
\* joined with ", ", strings pass through.
RECURSIVE headersFromIncomingHttpHeaders(_)
headersFromIncomingHttpHeaders(headers) ==
  IF Len(headers) = 0 THEN <<>>
  ELSE LET name  == Head(headers)[1]
           kind  == Head(headers)[2]
           items == Head(headers)[3]
           rest  == headersFromIncomingHttpHeaders(Tail(headers))
       IN IF kind = "undefined" THEN rest
          ELSE IF kind = "array" THEN <<<<name, Join(items, <<44, 32>>)>>>> \o rest
          ELSE <<<<name, items[1]>>>> \o rest

\* The start line of fromResponse(IncomingMessage).
IncomingStartLine(response) ==
  LET status     == IF response.statusCode = 0 THEN 200 ELSE response.statusCode
      statusText == OrElse(response.statusMessage, StatusCodes(status))
      version    == OrElse(response.httpVersion, httpVersion)
  IN Template(version) \o <<32>> \o ToDecimal(status) \o <<32>> \o Template(statusText)

\* A plausible slip: readable taken to mean "push(null) has not been called".
IsReadableUntilEnded(st) == ~st.destroyed /\ ~st.errored /\ ~st.ended

\* A plausible slip: only destruction and errors are checked, so a stream
\* that was read to its end still passes.
IsReadableIgnoringEnd(st) == ~st.destroyed /\ ~st.errored

\* readable.readable, as node:stream defines it: not destroyed, no 'error'
\* and no 'end' emitted yet.
IsReadable(st) == ~st.destroyed /\ ~st.errored /\ ~st.endEmitted

\* The error of invariant(readable.readable, ...).
AlreadyRead ==
  Err("InvariantError", "Failed to read the body of IncomingMessage: message already read", "")

\* A plausible slip: a rejection that overwrites a promise already settled.
RejectUnguarded(e, reason) == [e EXCEPT !.state = "rejected", !.value = Undefined, !.reason = reason]

\* DeferredPromise.resolve / .reject: only a pending promise settles.
Resolve(e, value) ==
  IF e.state = "pending" THEN [e EXCEPT !.state = "resolved", !.value = value] ELSE e
Reject(e, reason) ==
  IF e.state = "pending" THEN [e EXCEPT !.state = "rejected", !.reason = reason] ELSE e

\* A plausible slip: each chunk decoded on its own, the texts joined.
RECURSIVE DecodeEachChunk(_)
DecodeEachChunk(chunks) ==
  IF Len(chunks) = 0 THEN Undefined
  ELSE Utf8Decode(Head(chunks))
       \o (IF Len(chunks) = 1 THEN <<>> ELSE DecodeEachChunk(Tail(chunks)))

\* The text the 'end' and 'finish' listeners resolve with.
ExtractedText(chunks) ==
  IF Len(chunks) = 0 THEN Undefined ELSE Utf8Decode(BufferConcat(chunks))

\* A plausible slip: the 'error' listener settles with the text read so far.
OnErrorKeepsPartial(e, error) == Resolve(e, ExtractedText(e.chunks))

\* The listeners extractReadableBody registers.
OnData(e, chunk) == [e EXCEPT !.chunks = Append(@, chunk)]
OnError(e, error) == Reject(e, error)
OnEnd(e) == Resolve(e, ExtractedText(e.chunks))

\* fromResponse(response), response instanceof IncomingMessage, up to its
\* `await extractReadableBody(response)`: the start line and headers are
\* derived, then the extraction either fails its invariant (the promise of
\* the async function is rejected) or registers its three listeners; the
\* 'data' listener switches the stream to flowing mode.
FromResponseIncoming(i) ==
  /\ call[i].status = "idle"
  /\ call' = [call EXCEPT ![i] =
       Call("fromResponse", "awaiting",
            Source("IncomingMessage", "IncomingMessage", FALSE, "object", <<>>,
                   stream.statusCode, stream.statusMessage, stream.headers, Undefined),
            IncomingStartLine(stream), headersFromIncomingHttpHeaders(stream.headers), NoError)]
  /\ IF IsReadable(stream)
     THEN /\ stream' = [stream EXCEPT !.listeners = @ \cup {i}, !.flowing = TRUE]
          /\ ext' = [ext EXCEPT ![i] = [IdleExt EXCEPT !.state = "pending", !.from = Len(emitted)]]
     ELSE /\ stream' = stream
          /\ ext' = [ext EXCEPT ![i] = [IdleExt EXCEPT !.state = "rejected", !.reason = AlreadyRead,
                                                     !.from = Len(emitted)]]
  /\ UNCHANGED <<msg, out, emitted, writable, written>>

\* The continuation of a factory after `await extract...Body(...)`: the
\* message is constructed from the resolved body, or the rejection is thrown on.
Await(i) ==
  /\ call[i].status = "awaiting"
  /\ ext[i].state \in {"resolved", "rejected"}
  /\ IF ext[i].state = "resolved"
     THEN Construct(i, call[i].op, call[i].src, call[i].startLine, call[i].rawHeaders, ext[i].value)
     ELSE /\ call' = [call EXCEPT ![i].status = "thrown", ![i].error = ext[i].reason]
          /\ msg' = msg
  /\ UNCHANGED <<out, streamVars>>

\* response.push(chunk): the producer buffers a chunk.
Push ==
  /\ ~stream.ended /\ ~stream.destroyed
  /\ Len(emitted) + Len(stream.buffer) < MaxChunks
  /\ \E chunk \in Chunks : stream' = [stream EXCEPT !.buffer = Append(@, chunk)]
  /\ UNCHANGED <<call, msg, out, ext, emitted, writable, written>>

\* response.push(null): the producer signals the end of the data.
PushNull ==
  /\ ~stream.ended /\ ~stream.destroyed
  /\ stream' = [stream EXCEPT !.ended = TRUE]
  /\ UNCHANGED <<call, msg, out, ext, emitted, writable, written>>

\* Some other consumer puts the stream into flowing mode (resume()), so that
\* it is read with or without an extraction listening.
ResumeElsewhere ==
  /\ ~stream.flowing /\ ~stream.destroyed
  /\ stream' = [stream EXCEPT !.flowing = TRUE]
  /\ UNCHANGED <<call, msg, out, ext, emitted, writable, written>>

\* The flowing stream emits 'data' with its oldest buffered chunk: every
\* registered 'data' listener runs.
EmitData ==
  /\ stream.flowing /\ ~stream.destroyed
  /\ Len(stream.buffer) > 0
  /\ stream' = [stream EXCEPT !.buffer = Tail(@)]
  /\ emitted' = Append(emitted, Head(stream.buffer))
  /\ ext' = [i \in Calls |-> IF i \in stream.listeners THEN OnData(ext[i], Head(stream.buffer)) ELSE ext[i]]
  /\ UNCHANGED <<call, msg, out, writable, written>>

\* The flowing stream, ended and drained, emits 'end': every registered
\* 'end' listener runs.
EmitEnd ==
  /\ stream.flowing /\ ~stream.destroyed /\ ~stream.errored
  /\ stream.ended /\ Len(stream.buffer) = 0 /\ ~stream.endEmitted
  /\ stream' = [stream EXCEPT !.endEmitted = TRUE]
  /\ ext' = [i \in Calls |-> IF i \in stream.listeners THEN OnEnd(ext[i]) ELSE ext[i]]
  /\ UNCHANGED <<call, msg, out, emitted, writable, written>>

\* The stream is destroyed with an error (the socket failed) and emits
\* 'error': every registered 'error' listener runs.
EmitError ==
  /\ ~stream.destroyed
  /\ \E error \in StreamErrors :
       /\ stream' = [stream EXCEPT !.destroyed = TRUE, !.errored = TRUE, !.error = error]
       /\ ext' = [i \in Calls |-> IF i \in stream.listeners THEN OnError(ext[i], error) ELSE ext[i]]
  /\ UNCHANGED <<call, msg, out, emitted, writable, written>>

InitReadable ==
  /\ InitCalls
  /\ stream \in IncomingMessages
  /\ writable = ClientRequest(GetMethod, <<>>)

NextReadable ==
  \/ \E i \in Calls : FromResponseIncoming(i)
  \/ \E i \in Calls : Await(i)
  \/ Push
  \/ PushNull
  \/ ResumeElsewhere
  \/ EmitData
  \/ EmitEnd
  \/ EmitError

SpecReadable == InitReadable /\ [][NextReadable]_vars

\* The flowing stream does emit what it holds: a buffered chunk is handed to
\* the 'data' listeners, and 'end' follows once the stream has ended and is
\* drained (node:stream schedules both itself once a 'data' listener is on).
SpecReadableFair == SpecReadable /\ WF_vars(EmitData) /\ WF_vars(EmitEnd)

\* ------------------------------------------------------------------ writable
\* headersFromOutgoingHttpHeaders: undefined values are skipped, the items of
\* an array are joined with ", " (header values here are strings, whose
\* toString() is the string itself).
RECURSIVE headersFromOutgoingHttpHeaders(_)
headersFromOutgoingHttpHeaders(headers) ==
  IF Len(headers) = 0 THEN <<>>
  ELSE LET name  == Head(headers)[1]
           kind  == Head(headers)[2]
           items == Head(headers)[3]
           rest  == headersFromOutgoingHttpHeaders(Tail(headers))
       IN IF kind = "undefined" THEN rest
          ELSE IF kind = "array" THEN <<<<name, Join(items, <<44, 32>>)>>>> \o rest
          ELSE <<<<name, items[1]>>>> \o rest

\* The start line of fromRequest(ClientRequest): "{method} ??? HTTP/1.0".
ClientRequestStartLine(method) == method \o <<32, 63, 63, 63, 32>> \o httpVersion

\* The _write that extractWritableBody installs: it logs the chunk and calls
\* next(); the chunks array of the extraction is left as it is.
HookedWrite(e, chunk) == e

\* The 'finish' listener extractWritableBody registers.
OnFinish(e) == Resolve(e, ExtractedText(e.chunks))

\* fromRequest(request), request instanceof ClientRequest, up to its
\* `await extractWritableBody(request)`: the start line and headers are
\* derived, _write is replaced, the 'error' and 'finish' listeners registered.
FromRequestClient(i) ==
  /\ call[i].status = "idle"
  /\ call' = [call EXCEPT ![i] =
       Call("fromRequest", "awaiting",
            Source("ClientRequest", "ClientRequest", FALSE, "object", writable.method, 0, <<>>,
                   writable.headers, Undefined),
            ClientRequestStartLine(writable.method),
            headersFromOutgoingHttpHeaders(writable.headers), NoError)]
  /\ writable' = [writable EXCEPT !.hooked = i, !.listeners = @ \cup {i}]
  /\ ext' = [ext EXCEPT ![i] = [IdleExt EXCEPT !.state = "pending", !.from = Len(written)]]
  /\ UNCHANGED <<msg, out, stream, emitted, written>>

\* request.write(chunk): the chunk queues for _write.
Write ==
  /\ ~writable.ending /\ ~writable.errored
  /\ Len(written) < MaxChunks
  /\ \E chunk \in Chunks :
       /\ writable' = [writable EXCEPT !.pending = Append(@, chunk)]
       /\ written' = Append(written, chunk)
  /\ UNCHANGED <<call, msg, out, stream, ext, emitted>>

\* request.end(chunk): a last chunk queues for _write, no more may follow.
EndWithChunk ==
  /\ ~writable.ending /\ ~writable.errored
  /\ Len(written) < MaxChunks
  /\ \E chunk \in Chunks :
       /\ writable' = [writable EXCEPT !.pending = Append(@, chunk), !.ending = TRUE]
       /\ written' = Append(written, chunk)
  /\ UNCHANGED <<call, msg, out, stream, ext, emitted>>

\* request.end(): no more chunks may follow.
End ==
  /\ ~writable.ending /\ ~writable.errored
  /\ writable' = [writable EXCEPT !.ending = TRUE]
  /\ UNCHANGED <<call, msg, out, stream, ext, emitted, written>>

\* The stream hands its oldest queued chunk to _write: to the one installed
\* last by an extraction, if any, else to the request's own.
DoWrite ==
  /\ Len(writable.pending) > 0 /\ ~writable.errored
  /\ writable' = [writable EXCEPT !.pending = Tail(@)]
  /\ ext' = [i \in Calls |-> IF i = writable.hooked THEN HookedWrite(ext[i], Head(writable.pending))
                             ELSE ext[i]]
  /\ UNCHANGED <<call, msg, out, stream, emitted, written>>

\* The ended stream, all chunks written, emits 'finish': every registered
\* 'finish' listener runs.
EmitFinish ==
  /\ writable.ending /\ Len(writable.pending) = 0
  /\ ~writable.finished /\ ~writable.errored
  /\ writable' = [writable EXCEPT !.finished = TRUE]
  /\ ext' = [i \in Calls |-> IF i \in writable.listeners THEN OnFinish(ext[i]) ELSE ext[i]]
  /\ UNCHANGED <<call, msg, out, stream, emitted, written>>

\* The request fails and emits 'error': every registered 'error' listener runs.
EmitWritableError ==
  /\ ~writable.errored /\ ~writable.finished
  /\ \E error \in StreamErrors :
       /\ writable' = [writable EXCEPT !.errored = TRUE]
       /\ ext' = [i \in Calls |-> IF i \in writable.listeners THEN OnError(ext[i], error) ELSE ext[i]]
  /\ UNCHANGED <<call, msg, out, stream, emitted, written>>

\* The requests of the writable specification: "POST" without headers, and
\* "POST" with an array-valued and an undefined header.
ClientRequests == {ClientRequest(PostMethod, <<>>), ClientRequest(PostMethod, ArrayHeaders)}

InitWritable ==
  /\ InitCalls
  /\ stream = IncomingMessage(0, Undefined, Undefined, <<>>)
  /\ writable \in ClientRequests

NextWritable ==
  \/ \E i \in Calls : FromRequestClient(i)
  \/ \E i \in Calls : Await(i)
  \/ \E i \in Calls : ToString(i)
  \/ Write
  \/ EndWithChunk
  \/ End
  \/ DoWrite
  \/ EmitFinish
  \/ EmitWritableError

SpecWritable == InitWritable /\ [][NextWritable]_vars

\* ------------------------------------------------------------------ claims
Constructed == {i \in Calls : msg[i].constructed}
Serialized == {i \in Calls : out[i] # NotCalled}

\* C1 (as claimed): the header block of every constructed message is the
\* header lines, each followed by CRLF, plus one extra CRLF exactly when there
\* is at least one header and a body is present (the empty string counts as
\* present); with no headers the header block is empty.
C1_ExtraCrlfIffHeadersAndBody ==
  \A i \in Constructed :
    LET m     == msg[i]
        lines == Join(toHeaderLines(m.rawHeaders), CRLF) \o CRLF
    IN /\ Len(m.rawHeaders) = 0 => m.headers = <<>>
       /\ Len(m.rawHeaders) > 0 =>
            /\ m.headers \in {lines, lines \o CRLF}
            /\ (m.headers = lines \o CRLF) <=> (m.body # Undefined)

\* C2: toString() is startLine, CRLF, the header block, then the body when one
\* is present (also the empty one); otherwise one more CRLF when the header
\* block is non-empty and nothing further when it is empty.
C2_ToStringLayout ==
  \A i \in Serialized :
    LET m == msg[i]
    IN /\ m.body # Undefined => out[i] = m.startLine \o CRLF \o m.headers \o m.body
       /\ (m.body = Undefined /\ m.headers # <<>>) =>
            out[i] = m.startLine \o CRLF \o m.headers \o CRLF
       /\ (m.body = Undefined /\ m.headers = <<>>) => out[i] = m.startLine \o CRLF

\* C2 witness: a message with headers and the empty string as its body has
\* been serialized: the body counts as present and nothing closes the output.
C2_Witness ==
  \E i \in Serialized :
    /\ msg[i].body = <<>>
    /\ msg[i].headers # <<>>
    /\ out[i] = msg[i].startLine \o CRLF \o msg[i].headers

\* C3: headersSize is the UTF-8 byte length of startLine + CRLF + header
\* block, the block toString() emits: what toString() returns is that many
\* bytes followed by the body, or by the closing CRLF of a body-less message
\* with headers.
C3_HeadersSizeExact ==
  /\ \A i \in Constructed :
       msg[i].headersSize = Utf8ByteLength(msg[i].startLine) + 2 + Utf8ByteLength(msg[i].headers)
  /\ \A i \in Serialized :
       Utf8ByteLength(out[i]) =
         msg[i].headersSize
         + (IF msg[i].body # Undefined THEN Utf8ByteLength(msg[i].body)
            ELSE IF msg[i].headers # <<>> THEN 2 ELSE 0)

\* C3 witness: a serialized message with a body whose headers hold a code
\* unit of more than one byte, so that bytes and code units differ.
C3_Witness ==
  \E i \in Serialized :
    /\ msg[i].body # Undefined /\ Len(msg[i].body) > 0
    /\ msg[i].headers # <<>>
    /\ msg[i].headersSize > Len(msg[i].startLine) + 2 + Len(msg[i].headers)

\* C8 (as claimed): fromResponse on a fetch Response builds the start line
\* "{VERSION} {STATUS} {STATUS-TEXT}", STATUS-TEXT being the explicit status
\* text if given, else the standard reason phrase of the status code, else
\* blank when the code is not a standard one.
C8_ResponseStartLine ==
  \A i \in Constructed :
    (call[i].op = "fromResponse" /\ call[i].src.cls = "Response") =>
      LET src == call[i].src
          text == IF src.statusText # <<>> THEN src.statusText
                  ELSE IF StatusCodes(src.status) # Undefined THEN StatusCodes(src.status)
                  ELSE <<>>
      IN msg[i].startLine = httpVersion \o <<32>> \o ToDecimal(src.status) \o <<32>> \o text

\* The chunks the stream emitted since call i registered its listeners.
Arrived(i) == SubSeq(emitted, ext[i].from + 1, Len(emitted))

\* Call i begins its streaming extraction in this step.
Begins(i) == ext[i].state = "none" /\ ext'[i].state # "none"

\* C4: a streaming extraction that resolved did so with the concatenation, in
\* arrival order, of all the chunks the stream emitted to it, decoded as UTF-8
\* as a whole, or with undefined (not the empty string) when no chunk arrived
\* before the end; on a fresh stream these are all the chunks of the stream.
\* The message of the call carries that body.
C4_BodyIsDecodedConcatenation ==
  \A i \in Calls :
    ext[i].state = "resolved" =>
      /\ Len(Arrived(i)) = 0 => ext[i].value = Undefined
      /\ Len(Arrived(i)) > 0 => ext[i].value = Utf8Decode(BufferConcat(Arrived(i)))
      /\ stream.endEmitted
      /\ msg[i].constructed => msg[i].body = ext[i].value

\* C4 witness: on a fresh stream the two bytes of "é" arrived in two chunks,
\* and the message built after the end carries the text "aé".
C4_Witness ==
  \E i \in Calls :
    /\ ext[i].state = "resolved" /\ ext[i].from = 0
    /\ emitted = <<<<97, 195>>, <<169>>>>
    /\ msg[i].constructed /\ msg[i].body = <<97, 233>>

\* C5 (as claimed): of two extraction attempts on the same stream the second
\* fails, so no two extractions of one stream both succeed.
C5_NoTwoExtractionsSucceed ==
  \A i, j \in Calls :
    (i # j /\ ext[i].state = "resolved") => ext[j].state # "resolved"

\* C5 (amended): an attempt that begins after the stream emitted its end or
\* error signal (or was destroyed) fails with the not-readable error; one
\* that begins before, also while another attempt is pending, passes the
\* check, registers its listeners and is pending.
C5_ReentryFailsOnlyAfterTerminalSignal ==
  [][\A j \in Calls :
       Begins(j) =>
         IF stream.endEmitted \/ stream.errored \/ stream.destroyed
         THEN ext'[j].state = "rejected" /\ ext'[j].reason = AlreadyRead
         ELSE ext'[j].state = "pending" /\ j \in stream'.listeners]_vars

\* C5 witness: a second attempt made after the first one resolved has failed
\* with the not-readable error.
C5_Witness ==
  \E i, j \in Calls :
    /\ i # j
    /\ ext[i].state = "resolved"
    /\ ext[j].state = "rejected" /\ ext[j].reason = AlreadyRead

\* C6: an extraction that begins on a stream that is not readable fails at
\* once with the not-readable error: the step registers no listener and
\* consumes no chunk, and the call never yields a message.
C6_NotReadableFailsFast ==
  /\ [][\A i \in Calls :
          (Begins(i) /\ (stream.endEmitted \/ stream.errored \/ stream.destroyed)) =>
            /\ ext'[i].state = "rejected" /\ ext'[i].reason = AlreadyRead
            /\ stream' = stream /\ emitted' = emitted]_vars
  /\ [](\A i \in Calls :
          ext[i].reason = AlreadyRead =>
            /\ ext[i].state = "rejected"
            /\ i \notin stream.listeners /\ ext[i].chunks = <<>>
            /\ ~msg[i].constructed /\ call[i].status \in {"awaiting", "thrown"}
            /\ call[i].status = "thrown" => call[i].error = AlreadyRead)

\* C6 witness: fromResponse was called on a stream already read to its end by
\* someone else, and has thrown the not-readable error.
C6_Witness ==
  \E i \in Calls :
    /\ stream.endEmitted /\ stream.listeners = {} /\ Len(emitted) > 0
    /\ call[i].status = "thrown" /\ call[i].error = AlreadyRead

\* C7: when the stream signals an error while an extraction is pending, after
\* any number of chunks, the extraction is rejected with that very error; a
\* rejected extraction has no body, its call returns no message and throws
\* the same error.
C7_ErrorRejectsWithSameError ==
  /\ [][\A i \in Calls :
          (ext[i].state = "pending" /\ ~stream.errored /\ stream'.errored) =>
            ext'[i].state = "rejected" /\ ext'[i].reason = stream'.error]_vars
  /\ [](\A i \in Calls :
          ext[i].state = "rejected" =>
            /\ ext[i].value = Undefined
            /\ ~msg[i].constructed /\ call[i].status # "returned"
            /\ call[i].status = "thrown" => call[i].error = ext[i].reason)

\* C7 witness: the stream failed after a chunk had been collected, and
\* fromResponse has thrown the stream's error.
C7_Witness ==
  \E i \in Calls :
    /\ Len(ext[i].chunks) > 0
    /\ stream.errored /\ stream.error \in StreamErrors
    /\ call[i].status = "thrown" /\ call[i].error = stream.error
    /\ ~msg[i].constructed

\* The chunks written to the request since call i began its extraction.
WrittenSince(i) == SubSeq(written, ext[i].from + 1, Len(written))

\* C9 (as claimed): the body fromRequest(ClientRequest) resolves with is the
\* accumulation, in write order, of the chunks written to the request, and
\* is absent only when nothing was written.
C9_WrittenChunksAccumulate ==
  \A i \in Calls :
    (call[i].op = "fromRequest" /\ call[i].src.cls = "ClientRequest" /\ ext[i].state = "resolved") =>
      ext[i].value = (IF Len(WrittenSince(i)) = 0 THEN Undefined
                      ELSE Utf8Decode(BufferConcat(WrittenSince(i))))

\* C10: a factory handed a value of neither shape it recognizes (null and
\* undefined included) throws the invariant error naming the value's type:
\* its constructor's name, or its typeof when it is null or undefined; it
\* starts no body extraction and yields no message.
C10_UnsupportedSourceThrows ==
  \A i \in Calls :
    (\/ call[i].op = "fromRequest" /\ call[i].src.cls \notin {"Request", "ClientRequest"}
     \/ call[i].op = "fromResponse" /\ call[i].src.cls \notin {"Response", "IncomingMessage"}) =>
      /\ call[i].status = "thrown"
      /\ call[i].error.name = "InvariantError"
      /\ call[i].error.got = (IF call[i].src.nullish THEN call[i].src.typeof
                              ELSE IF call[i].src.ctor # "" THEN call[i].src.ctor
                              ELSE "undefined")
      /\ ~msg[i].constructed
      /\ ext[i].state = "none"
      /\ i \notin stream.listeners /\ i \notin writable.listeners

\* C10 witness: both factories have seen an unsupported value: here null,
\* reported by its typeof, "object".
C10_Witness ==
  \E i \in Calls :
    /\ call[i].op \in {"fromRequest", "fromResponse"}
    /\ call[i].src.cls = "null"
    /\ call[i].status = "thrown" /\ call[i].error.got = "object"


\* The extraction of call i has settled.
Settled(i) == ext[i].state \in {"resolved", "rejected"}

\* C11: a streaming extraction with its listeners on stays pending until the
\* stream's first terminal signal and settles in the step of that signal:
\* resolved on 'end', rejected on 'error'. Once the producer has ended the
\* stream, a pending extraction does settle. A settled extraction keeps its
\* state, value and reason through every later signal.
C11_SettlesOnceAtTerminalSignal ==
  /\ [](\A i \in Calls :
          ext[i].state = "pending" <=>
            (i \in stream.listeners /\ ~stream.endEmitted /\ ~stream.errored))
  /\ [][\A i \in Calls :
          (ext[i].state = "pending" /\ Settled(i)') =>
            \/ ~stream.endEmitted /\ stream'.endEmitted /\ ext'[i].state = "resolved"
            \/ ~stream.errored /\ stream'.errored /\ ext'[i].state = "rejected"]_vars
  /\ [][\A i \in Calls :
          Settled(i) =>
            /\ ext'[i].state = ext[i].state
            /\ ext'[i].value = ext[i].value
            /\ ext'[i].reason = ext[i].reason]_vars
  /\ \A i \in Calls : (ext[i].state = "pending" /\ stream.ended) ~> Settled(i)

\* C11 witness: an extraction resolved on 'end' after a chunk, the stream
\* signalled an error afterwards, and the extraction is still resolved.
C11_Witness ==
  \E i \in Calls :
    /\ ext[i].state = "resolved" /\ ext[i].value # Undefined
    /\ stream.endEmitted /\ stream.errored
    /\ i \in stream.listeners

====
